---------------------------- MODULE Spec2Model ----------------------------
(***************************************************************************)
(* clang-tools-extra/clang-tidy/add_new_module.py: the clang-tidy module   *)
(* generator.  main() validates the module name, creates three             *)
(* directories, writes two template files and patches two shared text      *)
(* files (CMakeLists.txt and ClangTidyForceLinker.h).                      *)
(*                                                                         *)
(* Text is modelled as Python models it: a str is a sequence of code       *)
(* points (naturals), compared lexicographically by code point; a file is  *)
(* the sequence of its characters, readlines() splits it after every       *)
(* newline and writing concatenates the lines again.                       *)
(***************************************************************************)
EXTENDS Naturals, Sequences, FiniteSets

\* ------------------------------------------------------------------------
\* Bounds of the model.

\* Longest shared file, in catalogue pieces, of those enumerated exhaustively.
MaxLines == 3

\* How many times in a row the tool is invoked.
MaxRuns == 2

\* ------------------------------------------------------------------------
\* String literals of the source.

\* 'add_subdirectory(' (line 133)
kAddSubdirectory == <<97, 100, 100, 95, 115, 117, 98, 100, 105, 114, 101, 99, 116, 111, 114, 121, 40>>
\* 'if(' (line 142)
kIfOpen == <<105, 102, 40>>
\* 'endif()' (line 144)
kEndif == <<101, 110, 100, 105, 102, 40, 41>>
\* 'set(ALL_CLANG_TIDY_CHECKS' (line 150)
kSetAllChecks == <<115, 101, 116, 40, 65, 76, 76, 95, 67, 76, 65, 78, 71, 95, 84, 73, 68, 89, 95, 67, 72, 69, 67, 75, 83>>
\* '  clangTidy' (line 172)
kLibPrefix == <<32, 32, 99, 108, 97, 110, 103, 84, 105, 100, 121>>
\* 'Module\n' (line 172)
kLibSuffix == <<77, 111, 100, 117, 108, 101, 10>>
\* ')\n' (line 138)
kSubSuffix == <<41, 10>>
\* '// This anchor ' (line 219)
anchor_comment == <<47, 47, 32, 84, 104, 105, 115, 32, 97, 110, 99, 104, 111, 114, 32>>
\* '// This anchor is used to force the linker to link the ' (line 212)
kLinkPrefix0 == <<47, 47, 32, 84, 104, 105, 115, 32, 97, 110, 99, 104, 111, 114, 32, 105, 115, 32, 117, 115, 101, 100, 32, 116, 111, 32, 102, 111, 114, 99, 101, 32, 116, 104, 101, 32, 108, 105, 110, 107, 101, 114, 32, 116, 111, 32, 108, 105, 110, 107, 32, 116, 104, 101, 32>>
\* 'Module.\n' (line 212)
kLinkSuffix0 == <<77, 111, 100, 117, 108, 101, 46, 10>>
\* 'extern volatile int ' (line 213)
kLinkPrefix1 == <<101, 120, 116, 101, 114, 110, 32, 118, 111, 108, 97, 116, 105, 108, 101, 32, 105, 110, 116, 32>>
\* 'ModuleAnchorSource;\n' (line 213)
kLinkSuffix1 == <<77, 111, 100, 117, 108, 101, 65, 110, 99, 104, 111, 114, 83, 111, 117, 114, 99, 101, 59, 10>>
\* 'static int LLVM_ATTRIBUTE_UNUSED ' (line 214)
kLinkPrefix2 == <<115, 116, 97, 116, 105, 99, 32, 105, 110, 116, 32, 76, 76, 86, 77, 95, 65, 84, 84, 82, 73, 66, 85, 84, 69, 95, 85, 78, 85, 83, 69, 68, 32>>
\* 'ModuleAnchorDestination =\n' (line 214)
kLinkSuffix2 == <<77, 111, 100, 117, 108, 101, 65, 110, 99, 104, 111, 114, 68, 101, 115, 116, 105, 110, 97, 116, 105, 111, 110, 32, 61, 10>>
\* '    ' (line 215)
kLinkPrefix3 == <<32, 32, 32, 32>>
\* 'ModuleAnchorSource;\n' (line 215)
kLinkSuffix3 == <<77, 111, 100, 117, 108, 101, 65, 110, 99, 104, 111, 114, 83, 111, 117, 114, 99, 101, 59, 10>>
\* '#if' (line 226)
kHashIf == <<35, 105, 102>>
\* '#endif' (line 228)
kHashEndif == <<35, 101, 110, 100, 105, 102>>
\* '} // namespace' (line 234)
kNamespaceClose == <<125, 32, 47, 47, 32, 110, 97, 109, 101, 115, 112, 97, 99, 101>>


\* ------------------------------------------------------------------------
\* Python str primitives.

\* s.startswith(p)
StartsWith(s, p) == Len(s) >= Len(p) /\ SubSeq(s, 1, Len(p)) = p

\* ch in s
Contains(s, ch) == \E k \in 1..Len(s) : s[k] = ch

\* a >= b on str: code points compared left to right, a proper prefix is smaller.
StrGE(a, b) ==
  LET m == IF Len(a) < Len(b) THEN Len(a) ELSE Len(b)
      diff == {k \in 1..m : a[k] # b[k]}
  IN  IF diff = {} THEN Len(a) >= Len(b)
      ELSE LET d == CHOOSE k \in diff : \A k2 \in diff : k <= k2
           IN  a[d] > b[d]

IsUpper(c) == c >= 65 /\ c <= 90
IsLower(c) == c >= 97 /\ c <= 122
IsDigit(c) == c >= 48 /\ c <= 57

ToUpper(c) == IF IsLower(c) THEN c - 32 ELSE c
ToLower(c) == IF IsUpper(c) THEN c + 32 ELSE c

\* Faulty variant of IsAlnum: only the emptiness of the name is tested.
IsAlnumNonEmpty(s) == Len(s) > 0

\* s.isalnum(): non-empty and every character is a letter or a digit.
IsAlnum(s) ==
  /\ Len(s) > 0
  /\ \A k \in 1..Len(s) : IsUpper(s[k]) \/ IsLower(s[k]) \/ IsDigit(s[k])

\* s.capitalize(): first character upper-cased, all the others lower-cased.
Capitalize(s) ==
  [k \in 1..Len(s) |-> IF k = 1 THEN ToUpper(s[k]) ELSE ToLower(s[k])]

\* s.split("-"): the segments between hyphens (at least one, possibly empty).
RECURSIVE SplitHyphen(_)
SplitHyphen(s) ==
  LET hy == {k \in 1..Len(s) : s[k] = 45}
  IN  IF hy = {} THEN <<s>>
      ELSE LET h == CHOOSE k \in hy : \A k2 \in hy : k <= k2
           IN  <<SubSeq(s, 1, h - 1)>> \o SplitHyphen(SubSeq(s, h + 1, Len(s)))

\* "".join(parts)
RECURSIVE Join(_)
Join(parts) == IF parts = <<>> THEN <<>> ELSE Head(parts) \o Join(Tail(parts))

\* Text mode with newline=None (io.open(path, "r")): on reading, "\r\n" and
\* a lone "\r" both become "\n".
RECURSIVE UniversalNewlines(_)
UniversalNewlines(text) ==
  IF text = <<>> THEN <<>>
  ELSE IF text[1] = 13
       THEN IF Len(text) >= 2 /\ text[2] = 10
            THEN <<10>> \o UniversalNewlines(SubSeq(text, 3, Len(text)))
            ELSE <<10>> \o UniversalNewlines(Tail(text))
  ELSE LET cr == {k \in 1..Len(text) : text[k] = 13}
       IN  IF cr = {} THEN text
           ELSE LET c == CHOOSE k \in cr : \A k2 \in cr : k <= k2
                IN  SubSeq(text, 1, c - 1) \o UniversalNewlines(SubSeq(text, c, Len(text)))

\* The translated text cut after every "\n"; a last line without a
\* terminator is kept as it is.
RECURSIVE SplitLines(_)
SplitLines(text) ==
  LET nl == {k \in 1..Len(text) : text[k] = 10}
  IN  IF text = <<>> THEN <<>>
      ELSE IF nl = {} THEN <<text>>
      ELSE LET e == CHOOSE k \in nl : \A k2 \in nl : k <= k2
           IN  <<SubSeq(text, 1, e)>> \o SplitLines(SubSeq(text, e + 1, Len(text)))

\* with io.open(path, "r", encoding="utf8") as f: lines = f.readlines()
ReadLines(text) == SplitLines(UniversalNewlines(text))

\* io.open(path, "w", newline="\n"): for line in linesout: f.write(line),
\* nothing translated.
WriteLines(linesout) == Join(linesout)

\* ------------------------------------------------------------------------
\* get_camel_name
get_camel_name(check_name) == Join([k \in 1..Len(SplitHyphen(check_name)) |->
                                      Capitalize(SplitHyphen(check_name)[k])])

\* ------------------------------------------------------------------------
\* update_clang_tidy_cmake: the scans over the lines of CMakeLists.txt.
\* Indices are 1-based: index j here is Python's j + 1, and Python's
\* lines[i:j] is SubSeq(lines, i, j - 1).

\* "add_subdirectory(%s)\n" % module
AddSubdirectoryLine(module) == kAddSubdirectory \o module \o kSubSuffix

\* "  clangTidy%sModule\n" % module_camel
ClangLibraryLine(module_camel) == kLibPrefix \o module_camel \o kLibSuffix

\* while j < len(lines) and not lines[j].startswith("add_subdirectory("): j += 1
RECURSIVE FindAddSubdirectory(_, _)
FindAddSubdirectory(lines, j) ==
  IF j <= Len(lines) /\ ~StartsWith(lines[j], kAddSubdirectory)
  THEN FindAddSubdirectory(lines, j + 1)
  ELSE j

\* Faulty variant of SkipBlock: only the opening line is stepped over, the
\* lines of the block are then scanned like any other.
SkipBlockOpeningOnly(lines, j, close) == j + 1

\* The inner loop of a guarded block: j moves past the first line that starts
\* with the closing token, or to the end of the file when there is none.
RECURSIVE SkipBlock(_, _, _)
SkipBlock(lines, j, close) ==
  IF j > Len(lines) THEN j
  ELSE IF StartsWith(lines[j], close) THEN j + 1
  ELSE SkipBlock(lines, j + 1, close)

\* Faulty variant of ScanSubdirectories: the test for a line equal to the
\* candidate is missing, so an equal line stops the scan as a greater one.
RECURSIVE ScanSubdirectoriesNoEqual(_, _, _)
ScanSubdirectoriesNoEqual(lines, j, add_subdirectory_line) ==
  IF j > Len(lines) THEN [j |-> j, line |-> add_subdirectory_line]
  ELSE IF StartsWith(lines[j], kIfOpen)
       THEN ScanSubdirectoriesNoEqual(lines, SkipBlock(lines, j, kEndif),
                                      add_subdirectory_line)
  ELSE IF StartsWith(lines[j], kSetAllChecks)
       THEN [j |-> j, line |-> add_subdirectory_line]
  ELSE IF StrGE(lines[j], add_subdirectory_line)
       THEN [j |-> j, line |-> add_subdirectory_line]
  ELSE ScanSubdirectoriesNoEqual(lines, j + 1, add_subdirectory_line)

\* Faulty variant of ScanSubdirectories: the test for a greater-or-equal
\* line is missing, so the candidate goes to the end of the list.
RECURSIVE ScanSubdirectoriesNoOrder(_, _, _)
ScanSubdirectoriesNoOrder(lines, j, add_subdirectory_line) ==
  IF j > Len(lines) THEN [j |-> j, line |-> add_subdirectory_line]
  ELSE IF StartsWith(lines[j], kIfOpen)
       THEN ScanSubdirectoriesNoOrder(lines, SkipBlock(lines, j, kEndif),
                                      add_subdirectory_line)
  ELSE IF StartsWith(lines[j], kSetAllChecks)
       THEN [j |-> j, line |-> add_subdirectory_line]
  ELSE IF lines[j] = add_subdirectory_line
       THEN [j |-> j, line |-> <<>>]
  ELSE ScanSubdirectoriesNoOrder(lines, j + 1, add_subdirectory_line)

\* The scan of the add_subdirectory list.  Returns where it stopped and the
\* line still to add (<<>> once the line was found: "do not add again").
RECURSIVE ScanSubdirectories(_, _, _)
ScanSubdirectories(lines, j, add_subdirectory_line) ==
  IF j > Len(lines) THEN [j |-> j, line |-> add_subdirectory_line]
  ELSE IF StartsWith(lines[j], kIfOpen)
       THEN ScanSubdirectories(lines, SkipBlock(lines, j, kEndif), add_subdirectory_line)
  ELSE IF StartsWith(lines[j], kSetAllChecks)
       THEN [j |-> j, line |-> add_subdirectory_line]
  ELSE IF lines[j] = add_subdirectory_line
       THEN [j |-> j, line |-> <<>>]
  ELSE IF StrGE(lines[j], add_subdirectory_line)
       THEN [j |-> j, line |-> add_subdirectory_line]
  ELSE ScanSubdirectories(lines, j + 1, add_subdirectory_line)

\* Faulty variant of FindSetAllChecks: j stops at the marker line instead of
\* moving past it.
RECURSIVE FindSetAllChecksNoStep(_, _)
FindSetAllChecksNoStep(lines, j) ==
  IF j > Len(lines) THEN j
  ELSE IF StartsWith(lines[j], kSetAllChecks) THEN j
  ELSE FindSetAllChecksNoStep(lines, j + 1)

\* The scan for the "set(ALL_CLANG_TIDY_CHECKS" line: j moves past it.
RECURSIVE FindSetAllChecks(_, _)
FindSetAllChecks(lines, j) ==
  IF j > Len(lines) THEN j
  ELSE IF StartsWith(lines[j], kSetAllChecks) THEN j + 1
  ELSE FindSetAllChecks(lines, j + 1)

\* Faulty variant of ScanLibraries: the test for a line equal to the
\* candidate is missing.
RECURSIVE ScanLibrariesNoEqual(_, _, _)
ScanLibrariesNoEqual(lines, j, clang_library_line) ==
  IF j > Len(lines) THEN [j |-> j, line |-> clang_library_line]
  ELSE IF Contains(lines[j], 41)
       THEN [j |-> j, line |-> clang_library_line]
  ELSE IF StrGE(lines[j], clang_library_line)
       THEN [j |-> j, line |-> clang_library_line]
  ELSE ScanLibrariesNoEqual(lines, j + 1, clang_library_line)

\* The scan of the library list, up to the first line with a ")".
RECURSIVE ScanLibraries(_, _, _)
ScanLibraries(lines, j, clang_library_line) ==
  IF j > Len(lines) THEN [j |-> j, line |-> clang_library_line]
  ELSE IF Contains(lines[j], 41)
       THEN [j |-> j, line |-> clang_library_line]
  ELSE IF lines[j] = clang_library_line
       THEN [j |-> j, line |-> <<>>]
  ELSE IF StrGE(lines[j], clang_library_line)
       THEN [j |-> j, line |-> clang_library_line]
  ELSE ScanLibraries(lines, j + 1, clang_library_line)

\* Faulty variant of CMakeLinesOut: the last extend starts one line late.
CMakeLinesOutOffByOne(lines, j1, sub, j3, lib) ==
  LET out1 == SubSeq(lines, 1, j1 - 1)
      out2 == out1 \o SubSeq(lines, j1, sub.j - 1)
      out3 == IF sub.line # <<>> THEN Append(out2, sub.line) ELSE out2
      out4 == out3 \o SubSeq(lines, sub.j, j3 - 1)
      out5 == out4 \o SubSeq(lines, j3, lib.j - 1)
      out6 == IF lib.line # <<>> THEN Append(out5, lib.line) ELSE out5
  IN  out6 \o SubSeq(lines, lib.j + 1, Len(lines))

\* linesout as the function builds it: five extends and two appends.
CMakeLinesOut(lines, j1, sub, j3, lib) ==
  LET out1 == SubSeq(lines, 1, j1 - 1)
      out2 == out1 \o SubSeq(lines, j1, sub.j - 1)
      out3 == IF sub.line # <<>> THEN Append(out2, sub.line) ELSE out2
      out4 == out3 \o SubSeq(lines, sub.j, j3 - 1)
      out5 == out4 \o SubSeq(lines, j3, lib.j - 1)
      out6 == IF lib.line # <<>> THEN Append(out5, lib.line) ELSE out5
  IN  out6 \o SubSeq(lines, lib.j, Len(lines))

\* The whole computation of update_clang_tidy_cmake on the lines it read.
CMakePatch(lines, module, module_camel) ==
  LET j1  == FindAddSubdirectory(lines, 1)
      sub == ScanSubdirectories(lines, j1, AddSubdirectoryLine(module))
      j3  == FindSetAllChecks(lines, sub.j)
      lib == ScanLibraries(lines, j3, ClangLibraryLine(module_camel))
  IN  [lines    |-> lines,
       j1       |-> j1,
       jSub     |-> sub.j,
       subAdded |-> sub.line # <<>>,
       jSet     |-> j3,
       jLib     |-> lib.j,
       libAdded |-> lib.line # <<>>,
       linesout |-> CMakeLinesOut(lines, j1, sub, j3, lib)]

\* ------------------------------------------------------------------------
\* update_clang_tidy_force_linker: the scan over ClangTidyForceLinker.h.

LinkLines(module_camel) ==
  << kLinkPrefix0 \o module_camel \o kLinkSuffix0,
     kLinkPrefix1 \o module_camel \o kLinkSuffix1,
     kLinkPrefix2 \o module_camel \o kLinkSuffix2,
     kLinkPrefix3 \o module_camel \o kLinkSuffix3,
     <<10>> >>

\* while j < len(lines) and not lines[j].startswith(anchor_comment): j += 1
RECURSIVE FindAnchor(_, _)
FindAnchor(lines, j) ==
  IF j <= Len(lines) /\ ~StartsWith(lines[j], anchor_comment)
  THEN FindAnchor(lines, j + 1)
  ELSE j

\* Faulty variant of ScanAnchors: the test for the line that closes the
\* namespace is missing.
RECURSIVE ScanAnchorsPastNamespace(_, _, _)
ScanAnchorsPastNamespace(lines, j, link_lines) ==
  IF j > Len(lines) THEN [j |-> j, link |-> link_lines]
  ELSE IF StartsWith(lines[j], kHashIf)
       THEN ScanAnchorsPastNamespace(lines, SkipBlock(lines, j, kHashEndif), link_lines)
  ELSE IF ~StartsWith(lines[j], anchor_comment)
       THEN ScanAnchorsPastNamespace(lines, j + 1, link_lines)
  ELSE IF lines[j] = link_lines[1]
       THEN [j |-> j, link |-> <<>>]
  ELSE IF StrGE(lines[j], link_lines[1])
       THEN [j |-> j, link |-> link_lines]
  ELSE ScanAnchorsPastNamespace(lines, j + 1, link_lines)

\* The scan of the anchor blocks.  Returns where it stopped and the lines
\* still to add (<<>> once the anchor comment was found).
RECURSIVE ScanAnchors(_, _, _)
ScanAnchors(lines, j, link_lines) ==
  IF j > Len(lines) THEN [j |-> j, link |-> link_lines]
  ELSE IF StartsWith(lines[j], kHashIf)
       THEN ScanAnchors(lines, SkipBlock(lines, j, kHashEndif), link_lines)
  ELSE IF StartsWith(lines[j], kNamespaceClose)
       THEN [j |-> j, link |-> link_lines]
  ELSE IF ~StartsWith(lines[j], anchor_comment)
       THEN ScanAnchors(lines, j + 1, link_lines)
  ELSE IF lines[j] = link_lines[1]
       THEN [j |-> j, link |-> <<>>]
  ELSE IF StrGE(lines[j], link_lines[1])
       THEN [j |-> j, link |-> link_lines]
  ELSE ScanAnchors(lines, j + 1, link_lines)

\* linesout: lines[0:j], the link lines still to add, lines[j:].
LinkerLinesOut(lines, scan) ==
  SubSeq(lines, 1, scan.j - 1) \o scan.link \o SubSeq(lines, scan.j, Len(lines))

\* The whole computation of update_clang_tidy_force_linker on the lines it read.
LinkerPatch(lines, module_camel) ==
  LET j1   == FindAnchor(lines, 1)
      scan == ScanAnchors(lines, j1, LinkLines(module_camel))
  IN  [lines    |-> lines,
       j1       |-> j1,
       j        |-> scan.j,
       added    |-> scan.link # <<>>,
       linesout |-> LinkerLinesOut(lines, scan)]

\* ------------------------------------------------------------------------
\* State.

VARIABLES
  module,        \* args.module, as given on the command line (<<>>: not given)
  module_camel,  \* main's module_camel, <<>> until it is computed
  pc,            \* the statement of main() the run has reached
  run,           \* the number of the current invocation of the tool
  fs,            \* the file system: directories, template files, shared files
  fs0,           \* the file system as it was when the current run started
  fsInit,        \* the file system as it was before the first run
  stdout,        \* what the current run has printed, in order
  ops,           \* the file-system calls the current run has made
  cmakeUpd,      \* what update_clang_tidy_cmake computed in the current run
  linkUpd        \* what update_clang_tidy_force_linker computed in the current run

vars == <<module, module_camel, pc, run, fs, fs0, fsInit, stdout, ops, cmakeUpd, linkUpd>>

Dirs == {"module_path", "docs_path", "test_path"}

\* A template file that does not exist / exists with some earlier content.
AbsentFile == [exists |-> FALSE, text |-> <<>>]
OtherFile == [exists |-> TRUE, text |-> <<>>]

\* The template of write_cmake with its two substitutions made.
CMakeTemplate(camel) ==
  [exists |-> TRUE,
   text   |-> << <<99, 108, 97, 110, 103, 84, 105, 100, 121>> \o camel \o <<77, 111, 100, 117, 108, 101>>,
                 camel \o <<84, 105, 100, 121, 77, 111, 100, 117, 108, 101, 46, 99, 112, 112>> >>]

\* The template of write_module_cpp with its three substitutions made.
ModuleCppTemplate(mod, camel, namespace) ==
  [exists |-> TRUE,
   text   |-> << namespace, camel \o <<77, 111, 100, 117, 108, 101>>, mod >>]

NoCMakeUpd ==
  [ran |-> FALSE, lines |-> <<>>, j1 |-> 0, jSub |-> 0, subAdded |-> FALSE,
   jSet |-> 0, jLib |-> 0, libAdded |-> FALSE, linesout |-> <<>>, wrote |-> FALSE]

NoLinkUpd ==
  [ran |-> FALSE, lines |-> <<>>, j1 |-> 0, j |-> 0, added |-> FALSE,
   linesout |-> <<>>, wrote |-> FALSE]

Say(step, msg) == [step |-> step, msg |-> msg]

\* ------------------------------------------------------------------------
\* main(), one action per statement that touches the file system or returns.

\* if not args.module: print, print_usage, return
RejectMissing ==
  /\ pc = "start"
  /\ module = <<>>
  /\ stdout' = stdout \o << Say("main", "Module must be specified."),
                            Say("main", "usage") >>
  /\ pc' = "done"
  /\ UNCHANGED <<module, module_camel, run, fs, fs0, fsInit, ops, cmakeUpd, linkUpd>>

\* if not args.module.isalnum(): print, return
RejectNotAlnum ==
  /\ pc = "start"
  /\ module # <<>>
  /\ ~IsAlnum(module)
  /\ stdout' = Append(stdout, Say("main", "Module name must be alphanumeric: %s"))
  /\ pc' = "done"
  /\ UNCHANGED <<module, module_camel, run, fs, fs0, fsInit, ops, cmakeUpd, linkUpd>>

\* A mkdir guarded by os.path.exists, as main does three times.
MakeDir(dir, exists_msg) ==
  IF dir \in fs.dirs
  THEN /\ stdout' = Append(stdout, Say(dir, exists_msg))
       /\ UNCHANGED <<fs, ops>>
  ELSE /\ stdout' = Append(stdout, Say(dir, "Creating %s..."))
       /\ fs' = [fs EXCEPT !.dirs = @ \cup {dir}]
       /\ ops' = ops \cup {<<"mkdir", dir>>}

\* module_camel = get_camel_name(module); the module directory
MakeModulePath ==
  /\ pc = "start"
  /\ module # <<>>
  /\ IsAlnum(module)
  /\ module_camel' = get_camel_name(module)
  /\ MakeDir("module_path", "Module path already exists: %s")
  /\ pc' = "write_cmake"
  /\ UNCHANGED <<module, run, fs0, fsInit, cmakeUpd, linkUpd>>

\* write_cmake(module_path, module_camel)
write_cmake ==
  /\ pc = "write_cmake"
  /\ IF fs.cmakelists.exists
     THEN UNCHANGED <<fs, ops, stdout>>
     ELSE /\ stdout' = Append(stdout, Say("write_cmake", "Creating %s..."))
          /\ fs' = [fs EXCEPT !.cmakelists = CMakeTemplate(module_camel)]
          /\ ops' = ops \cup {<<"write", "module_path/CMakeLists.txt">>}
  /\ pc' = "write_module_cpp"
  /\ UNCHANGED <<module, module_camel, run, fs0, fsInit, cmakeUpd, linkUpd>>

\* write_module_cpp(module_path, module, module_camel, module)
write_module_cpp ==
  /\ pc = "write_module_cpp"
  /\ IF fs.module_cpp.exists
     THEN /\ stdout' = Append(stdout, Say("write_module_cpp", "File already exists: %s"))
          /\ UNCHANGED <<fs, ops>>
     ELSE /\ stdout' = Append(stdout, Say("write_module_cpp", "Creating %s..."))
          /\ fs' = [fs EXCEPT !.module_cpp = ModuleCppTemplate(module, module_camel, module)]
          /\ ops' = ops \cup {<<"write", "module_path/TidyModule.cpp">>}
  /\ pc' = "docs_path"
  /\ UNCHANGED <<module, module_camel, run, fs0, fsInit, cmakeUpd, linkUpd>>

\* the docs directory
MakeDocsPath ==
  /\ pc = "docs_path"
  /\ MakeDir("docs_path", "Docs path already exists: %s")
  /\ pc' = "test_path"
  /\ UNCHANGED <<module, module_camel, run, fs0, fsInit, cmakeUpd, linkUpd>>

\* the test directory
MakeTestPath ==
  /\ pc = "test_path"
  /\ MakeDir("test_path", "Test path already exists: %s")
  /\ pc' = "update_cmake"
  /\ UNCHANGED <<module, module_camel, run, fs0, fsInit, cmakeUpd, linkUpd>>

\* update_clang_tidy_cmake(clang_tidy_path, module, module_camel)
update_clang_tidy_cmake ==
  /\ pc = "update_cmake"
  /\ LET r == CMakePatch(ReadLines(fs.cmake), module, module_camel)
         same == r.lines = r.linesout
     IN  /\ cmakeUpd' = [ran |-> TRUE, lines |-> r.lines, j1 |-> r.j1, jSub |-> r.jSub,
                         subAdded |-> r.subAdded, jSet |-> r.jSet, jLib |-> r.jLib,
                         libAdded |-> r.libAdded, linesout |-> r.linesout,
                         wrote |-> ~same]
         /\ IF same
            THEN /\ stdout' = Append(stdout, Say("update_clang_tidy_cmake",
                                                 "Module already included: %s"))
                 /\ ops' = ops \cup {<<"read", "CMakeLists.txt">>}
                 /\ UNCHANGED fs
            ELSE /\ stdout' = Append(stdout, Say("update_clang_tidy_cmake",
                                                 "Updating %s..."))
                 /\ ops' = ops \cup {<<"read", "CMakeLists.txt">>,
                                     <<"write", "CMakeLists.txt">>}
                 /\ fs' = [fs EXCEPT !.cmake = WriteLines(r.linesout)]
  /\ pc' = "update_force_linker"
  /\ UNCHANGED <<module, module_camel, run, fs0, fsInit, linkUpd>>

\* update_clang_tidy_force_linker(clang_tidy_path, module_camel)
update_clang_tidy_force_linker ==
  /\ pc = "update_force_linker"
  /\ LET r == LinkerPatch(ReadLines(fs.header), module_camel)
         same == r.lines = r.linesout
     IN  /\ linkUpd' = [ran |-> TRUE, lines |-> r.lines, j1 |-> r.j1, j |-> r.j,
                        added |-> r.added, linesout |-> r.linesout, wrote |-> ~same]
         /\ IF same
            THEN /\ stdout' = Append(stdout, Say("update_clang_tidy_force_linker",
                                                 "Module already has forced link: %s"))
                 /\ ops' = ops \cup {<<"read", "ClangTidyForceLinker.h">>}
                 /\ UNCHANGED fs
            ELSE /\ stdout' = Append(stdout, Say("update_clang_tidy_force_linker",
                                                 "Updating %s..."))
                 /\ ops' = ops \cup {<<"read", "ClangTidyForceLinker.h">>,
                                     <<"write", "ClangTidyForceLinker.h">>}
                 /\ fs' = [fs EXCEPT !.header = WriteLines(r.linesout)]
  /\ pc' = "finish"
  /\ UNCHANGED <<module, module_camel, run, fs0, fsInit, cmakeUpd>>

\* print("Done. Now it's your turn!")
Finish ==
  /\ pc = "finish"
  /\ stdout' = Append(stdout, Say("main", "Done. Now it's your turn!"))
  /\ pc' = "done"
  /\ UNCHANGED <<module, module_camel, run, fs, fs0, fsInit, ops, cmakeUpd, linkUpd>>

\* The tool is invoked again with the same module name, on the files it left.
Rerun ==
  /\ pc = "done"
  /\ run < MaxRuns
  /\ run' = run + 1
  /\ pc' = "start"
  /\ fs0' = fs
  /\ module_camel' = <<>>
  /\ stdout' = <<>>
  /\ ops' = {}
  /\ cmakeUpd' = NoCMakeUpd
  /\ linkUpd' = NoLinkUpd
  /\ UNCHANGED <<module, fs, fsInit>>

Next ==
  \/ RejectMissing
  \/ RejectNotAlnum
  \/ MakeModulePath
  \/ write_cmake
  \/ write_module_cpp
  \/ MakeDocsPath
  \/ MakeTestPath
  \/ update_clang_tidy_cmake
  \/ update_clang_tidy_force_linker
  \/ Finish
  \/ Rerun

\* ------------------------------------------------------------------------
\* The inputs: module names and the contents of the two shared files.

\* "b": the module name of the shared-file runs
ModuleB == <<98>>

\* "" (no argument), "b", "aB2", "a-b", "a!"
ToolModules == {<<>>, ModuleB, <<97, 66, 50>>, <<97, 45, 98>>, <<97, 33>>}

\* Lines of a CMakeLists.txt around the candidates of module "b".
SubA == AddSubdirectoryLine(<<97>>)
SubB == AddSubdirectoryLine(ModuleB)
SubC == AddSubdirectoryLine(<<99>>)
IfLine == kIfOpen \o <<88, 41, 10>>
EndifLine == kEndif \o <<10>>
SetLine == kSetAllChecks \o <<10>>
LibA == ClangLibraryLine(<<65>>)
LibB == ClangLibraryLine(get_camel_name(ModuleB))
LibC == ClangLibraryLine(<<67>>)
CloseLine == <<32, 32, 41, 10>>
\* One blank with no line terminator: before another piece it indents that
\* line, at the end of a file it is a last line without a newline.
Blank == <<32>>
\* One carriage return: a line terminator of its own, and before a piece
\* that starts with a newline the two are one terminator.
CarriageReturn == <<13>>

CMakePieces ==
  {SubA, SubB, SubC, IfLine, EndifLine, SetLine, LibB, LibC, CloseLine, Blank,
   CarriageReturn}

\* The pieces the whole-tool runs build a CMakeLists.txt from.
ToolCMakePieces == {SubA, SubB, SubC, IfLine, EndifLine, SetLine, LibB, Blank}

\* Lines of a ClangTidyForceLinker.h around the candidate of module "b".
AnchorA == LinkLines(<<65>>)[1]
AnchorB == LinkLines(get_camel_name(ModuleB))[1]
AnchorC == LinkLines(<<67>>)[1]
HashIfLine == kHashIf \o <<32, 88, 10>>
HashEndifLine == kHashEndif \o <<10>>
NamespaceCloseLine == kNamespaceClose \o <<32, 99, 108, 97, 110, 103, 58, 58, 116, 105, 100, 121, 10>>
EmptyLine == <<10>>

HeaderPieces ==
  {AnchorA, AnchorB, AnchorC, HashIfLine, HashEndifLine, NamespaceCloseLine,
   EmptyLine, Blank, CarriageReturn}

\* The pieces the whole-tool runs build a ClangTidyForceLinker.h from.
ToolHeaderPieces ==
  {AnchorA, AnchorB, AnchorC, HashIfLine, HashEndifLine, NamespaceCloseLine, Blank}

\* Every sequence of at most n pieces.
PieceSeqs(pieces, n) == UNION {[1..k -> pieces] : k \in 0..n}

\* The items of `items` that `mask` keeps, in order, as one list of lines.
Keep(items, mask) == Join([k \in 1..Len(items) |-> IF mask[k] THEN items[k] ELSE <<>>])

Masks(items) == [1..Len(items) -> BOOLEAN]

\* A CMakeLists.txt laid out as the one of clang-tidy: a sorted list of
\* add_subdirectory lines with a guarded, indented entry in it, the
\* set(ALL_CLANG_TIDY_CHECKS ...) list, and a guarded block after it.
CMakeSubItems == << <<SubA>>, <<IfLine, Blank \o SubB, EndifLine>>, <<SubB>>, <<SubC>> >>
CMakeLibItems == << <<LibA>>, <<LibB>>, <<LibC>> >>
LaidOutCMake(subMask, libMask) ==
  Keep(CMakeSubItems, subMask) \o <<SetLine>> \o Keep(CMakeLibItems, libMask)
    \o <<CloseLine, IfLine, EndifLine>>

\* A ClangTidyForceLinker.h laid out as the one of clang-tidy: an include
\* guard around the anchor blocks, one of them inside an #if, and the
\* closing line of the namespace.
HeaderItems ==
  << <<AnchorA, EmptyLine>>, <<HashIfLine, AnchorC, HashEndifLine>>,
     <<AnchorB, EmptyLine>>, <<AnchorC, EmptyLine>> >>
LaidOutHeader(mask, closed) ==
  <<kHashIf \o <<110, 100, 101, 102, 32, 71, 10>>, EmptyLine>> \o Keep(HeaderItems, mask)
    \o (IF closed THEN <<NamespaceCloseLine>> ELSE <<>>) \o <<HashEndifLine>>

LaidOutCMakeFiles ==
  {WriteLines(LaidOutCMake(sm, lm)) :
     sm \in Masks(CMakeSubItems), lm \in Masks(CMakeLibItems)}

LaidOutHeaderFiles ==
  {WriteLines(LaidOutHeader(m, c)) : m \in Masks(HeaderItems), c \in BOOLEAN}

\* The contents of CMakeLists.txt / ClangTidyForceLinker.h made of at most
\* MaxLines of the given pieces, and the laid-out ones.
CMakeFiles(pieces) ==
  {WriteLines(s) : s \in PieceSeqs(pieces, MaxLines)} \cup LaidOutCMakeFiles

HeaderFiles(pieces) ==
  {WriteLines(s) : s \in PieceSeqs(pieces, MaxLines)} \cup LaidOutHeaderFiles

SampleCMake ==
  WriteLines(<<SubA, IfLine, Blank \o SubB, EndifLine, SubC, SetLine, LibA, LibC,
               CloseLine, IfLine, EndifLine>>)

SampleHeader ==
  WriteLines(<<kHashIf \o <<110, 100, 101, 102, 32, 71, 10>>, EmptyLine,
               AnchorA, EmptyLine, HashIfLine, AnchorC, HashEndifLine,
               AnchorC, EmptyLine, NamespaceCloseLine, HashEndifLine>>)

\* The laid-out files that already hold every entry, those of module "b" too.
FullCMake ==
  WriteLines(LaidOutCMake([k \in 1..Len(CMakeSubItems) |-> TRUE],
                          [k \in 1..Len(CMakeLibItems) |-> TRUE]))
FullHeader == WriteLines(LaidOutHeader([k \in 1..Len(HeaderItems) |-> TRUE], TRUE))

\* The text with every "\n" turned into "\r\n", as a checkout with Windows
\* line endings has it.
CrLf(text) ==
  LET L == SplitLines(text)
  IN  Join([k \in 1..Len(L) |-> SubSeq(L[k], 1, Len(L[k]) - 1) \o <<13, 10>>])

\* Any module argument, on a project in which any of the directories and
\* template files may be left from before; the shared files as laid out,
\* without or with the entries of module "b", or with Windows line endings.
InitTool ==
  /\ module \in ToolModules
  /\ fs \in [dirs : SUBSET Dirs, cmakelists : {AbsentFile, OtherFile},
             module_cpp : {AbsentFile, OtherFile},
             cmake : {SampleCMake, FullCMake, CrLf(SampleCMake)},
             header : {SampleHeader, FullHeader, CrLf(SampleHeader)}]
  /\ (fs.cmakelists.exists \/ fs.module_cpp.exists) => "module_path" \in fs.dirs

\* A project in which nothing of the module exists yet.
FreshProject(cmake, header) ==
  [dirs |-> {}, cmakelists |-> AbsentFile, module_cpp |-> AbsentFile,
   cmake |-> cmake, header |-> header]

\* Module "b" on a fresh project, with any content of one shared file.
InitFiles ==
  /\ module = ModuleB
  /\ \/ \E c \in CMakeFiles(ToolCMakePieces) : fs = FreshProject(c, SampleHeader)
     \/ \E h \in HeaderFiles(ToolHeaderPieces) : fs = FreshProject(SampleCMake, h)

Init ==
  /\ InitTool \/ InitFiles
  /\ module_camel = <<>>
  /\ pc = "start"
  /\ run = 1
  /\ fs0 = fs
  /\ fsInit = fs
  /\ stdout = <<>>
  /\ ops = {}
  /\ cmakeUpd = NoCMakeUpd
  /\ linkUpd = NoLinkUpd

Spec == Init /\ [][Next]_vars

\* ------------------------------------------------------------------------
\* The two updates of the shared files on their own: main() has reached
\* update_clang_tidy_cmake (line 323) in the first run for module "b" on a
\* fresh project, having created the three directories and the two
\* template files.

\* What main() has done to a fresh project when it reaches line 323.
Scaffolded(f, mod, camel) ==
  [f EXCEPT !.dirs = Dirs,
            !.cmakelists = CMakeTemplate(camel),
            !.module_cpp = ModuleCppTemplate(mod, camel, mod)]

ScaffoldStdout ==
  << Say("module_path", "Creating %s..."), Say("write_cmake", "Creating %s..."),
     Say("write_module_cpp", "Creating %s..."), Say("docs_path", "Creating %s..."),
     Say("test_path", "Creating %s...") >>

ScaffoldOps ==
  {<<"mkdir", "module_path">>, <<"write", "module_path/CMakeLists.txt">>,
   <<"write", "module_path/TidyModule.cpp">>, <<"mkdir", "docs_path">>,
   <<"mkdir", "test_path">>}

\* Any content of one shared file beside the sample of the other; the files
\* that hold every entry, and the samples with Windows line endings.
InitPatch ==
  /\ module = ModuleB
  /\ module_camel = get_camel_name(ModuleB)
  /\ pc = "update_cmake"
  /\ run = 1
  /\ \/ \E c \in CMakeFiles(CMakePieces) : fsInit = FreshProject(c, SampleHeader)
     \/ \E h \in HeaderFiles(HeaderPieces) : fsInit = FreshProject(SampleCMake, h)
     \/ \E c \in {FullCMake, CrLf(SampleCMake)} :
           \E h \in {FullHeader, CrLf(SampleHeader)} : fsInit = FreshProject(c, h)
  /\ fs0 = fsInit
  /\ fs = Scaffolded(fsInit, module, module_camel)
  /\ stdout = ScaffoldStdout
  /\ ops = ScaffoldOps
  /\ cmakeUpd = NoCMakeUpd
  /\ linkUpd = NoLinkUpd

NextPatch ==
  \/ update_clang_tidy_cmake
  \/ update_clang_tidy_force_linker

SpecPatch == InitPatch /\ [][NextPatch]_vars

\* Under Spec, a first run for module "b" on a fresh project reaches
\* update_clang_tidy_cmake in the state SpecPatch starts from.
PatchStartIsReached ==
  (pc = "update_cmake" /\ run = 1 /\ module = ModuleB
     /\ fsInit = FreshProject(fsInit.cmake, fsInit.header)) =>
    /\ module_camel = get_camel_name(ModuleB)
    /\ fs0 = fsInit
    /\ fs = Scaffolded(fsInit, module, module_camel)
    /\ stdout = ScaffoldStdout
    /\ ops = ScaffoldOps
    /\ cmakeUpd = NoCMakeUpd
    /\ linkUpd = NoLinkUpd

\* ------------------------------------------------------------------------
\* Vocabulary of the properties.  Positions are stated on the lines the
\* current run read: the shared files as they were when the run started.

LinesCMake == ReadLines(fs0.cmake)
LinesHeader == ReadLines(fs0.header)

Range(s) == {s[k] : k \in 1..Len(s)}

\* The least element of S, or d when S is empty.
MinOr(S, d) == IF S = {} THEN d ELSE CHOOSE k \in S : \A k2 \in S : k <= k2

IsOpenCMake(line) == StartsWith(line, kIfOpen)
IsCloseCMake(line) == StartsWith(line, kEndif)
IsOpenHeader(line) == StartsWith(line, kHashIf)
IsCloseHeader(line) == StartsWith(line, kHashEndif)
IsMarker(line) == StartsWith(line, kSetAllChecks)
IsAnchor(line) == StartsWith(line, anchor_comment)
IsNamespaceClose(line) == StartsWith(line, kNamespaceClose)

\* The first line of each target region (Len + 1: there is none).
FirstAddSubdirectory(L) ==
  MinOr({k \in 1..Len(L) : StartsWith(L[k], kAddSubdirectory)}, Len(L) + 1)
FirstAnchor(L) == MinOr({k \in 1..Len(L) : IsAnchor(L[k])}, Len(L) + 1)

\* Line k lies in a guarded block that opens at or after `start`: from an
\* opening line up to and including the first closing line after it (or up
\* to the end of the file).
Guarded(L, start, k, IsOpen(_), IsClose(_)) ==
  \E o \in start..k : IsOpen(L[o]) /\ \A c \in o..(k - 1) : ~IsClose(L[c])

\* A line inserted before index p would stand between an opening line at or
\* after `start` and the first closing line that follows it.
InsideBlock(L, start, p, IsOpen(_), IsClose(_)) ==
  \E o \in start..(p - 1) :
     /\ IsOpen(L[o])
     /\ \A c \in o..(p - 1) : ~IsClose(L[c])
     /\ \E c \in p..Len(L) : IsClose(L[c])

\* Opening line o and closing line c match, blocks nesting as brackets do.
Count(L, a, b, Is(_)) == Cardinality({k \in a..b : Is(L[k])})
Matches(L, o, c, IsOpen(_), IsClose(_)) ==
  /\ o < c
  /\ IsOpen(L[o])
  /\ IsClose(L[c])
  /\ Count(L, o + 1, c, IsClose) = Count(L, o + 1, c, IsOpen) + 1
  /\ \A c2 \in (o + 1)..(c - 1) :
        Count(L, o + 1, c2, IsClose) <= Count(L, o + 1, c2, IsOpen)

\* A line inserted before index p would stand between some opening line of
\* the file and its matching closing line.
InsideMatchedBlock(L, p, IsOpen(_), IsClose(_)) ==
  \E o \in 1..(p - 1) : \E c \in p..Len(L) : Matches(L, o, c, IsOpen, IsClose)

\* The candidates of the current run.
CandSub == AddSubdirectoryLine(module)
CandLib == ClangLibraryLine(module_camel)
CandLink == LinkLines(module_camel)

\* L with the lines xs inserted before index p.
InsertAt(L, p, xs) == SubSeq(L, 1, p - 1) \o xs \o SubSeq(L, p, Len(L))

\* The module name is one main() rejects: missing, or with a character that
\* is neither a letter nor a digit.
Rejected(m) ==
  \/ m = <<>>
  \/ \E k \in 1..Len(m) : ~(m[k] \in (48..57) \cup (65..90) \cup (97..122))

MutatingOps == {o \in ops : o[1] \in {"mkdir", "write"}}

\* ------------------------------------------------------------------------
\* C5.  A run whose module name is missing or not alphanumeric returns after
\* printing: no directory is created, no file is written, neither shared
\* file is read, and the file system is as it was.
C5_RejectedRunTouchesNothing ==
  Rejected(module) =>
    /\ ops = {}
    /\ fs = fsInit
    /\ ~cmakeUpd.ran /\ ~linkUpd.ran
    /\ pc \in {"start", "done"}
    /\ pc = "done" => Len(stdout) >= 1

\* C5 witness: a run with the name "a!" has returned.
C5_Witness == module = <<97, 33>> /\ pc = "done" /\ Len(stdout) = 1

\* C6 (as claimed).  For an accepted name with no hyphen, get_camel_name
\* returns the name with its first character capitalized and every other
\* character unchanged.
C6_CamelKeepsTheRest ==
  (module_camel # <<>> /\ ~Contains(module, 45)) =>
    module_camel = <<ToUpper(module[1])>> \o Tail(module)

\* C8 (as claimed).  In a finished run with an accepted name, each of the
\* seven steps has printed a message stating its outcome.
Steps ==
  {"module_path", "write_cmake", "write_module_cpp", "docs_path", "test_path",
   "update_clang_tidy_cmake", "update_clang_tidy_force_linker"}
C8_EveryStepAnnounced ==
  (pc = "done" /\ ~Rejected(module)) =>
    \A s \in Steps : \E k \in 1..Len(stdout) : stdout[k].step = s

\* ------------------------------------------------------------------------
\* C7.  What each patch writes back is the lines it read with only its
\* candidate lines inserted: every original line kept, in order, and 0, 1 or
\* 2 lines added to the build file, 0 or 5 to the force-link header.
C7_CMakeFrame ==
  cmakeUpd.ran =>
    LET L == LinesCMake
        out == cmakeUpd.linesout
    IN  /\ \E p \in 1..(Len(L) + 1) : \E q \in p..(Len(L) + 1) :
             \E X \in {<<>>, <<CandSub>>} : \E Y \in {<<>>, <<CandLib>>} :
                out = SubSeq(L, 1, p - 1) \o X \o SubSeq(L, p, q - 1) \o Y
                        \o SubSeq(L, q, Len(L))
        /\ Len(out) - Len(L) \in {0, 1, 2}
        /\ fs.cmake = IF cmakeUpd.wrote THEN WriteLines(out) ELSE fs0.cmake
C7_HeaderFrame ==
  linkUpd.ran =>
    LET L == LinesHeader
        out == linkUpd.linesout
    IN  /\ \E p \in 1..(Len(L) + 1) : \E Z \in {<<>>, CandLink} :
             out = InsertAt(L, p, Z)
        /\ Len(out) - Len(L) \in {0, 5}
        /\ fs.header = IF linkUpd.wrote THEN WriteLines(out) ELSE fs0.header
C10_AnchorBlockPosition ==
  (linkUpd.ran /\ linkUpd.added) =>
    LET L == LinesHeader
        p == linkUpd.j
    IN  /\ linkUpd.linesout = InsertAt(L, p, CandLink)
        /\ \/ p = Len(L) + 1
           \/ p \in 1..Len(L) /\ (IsAnchor(L[p]) \/ IsNamespaceClose(L[p]))
        /\ \A k \in FirstAnchor(L)..Len(L) :
              (IsNamespaceClose(L[k])
                 /\ ~Guarded(L, FirstAnchor(L), k, IsOpenHeader, IsCloseHeader))
              => p <= k

\* C10 witness: the block went in before a namespace-closing line, past an
\* existing anchor block and a guarded one.
C10_Witness ==
  /\ linkUpd.ran /\ linkUpd.added
  /\ linkUpd.j \in 1..Len(LinesHeader)
  /\ IsNamespaceClose(LinesHeader[linkUpd.j])
  /\ AnchorA \in Range(SubSeq(LinesHeader, 1, linkUpd.j))
  /\ HashEndifLine \in Range(SubSeq(LinesHeader, FirstAnchor(LinesHeader), linkUpd.j))

\* ------------------------------------------------------------------------
\* Where each scan starts and stops, stated on the lines alone.

\* The first "set(ALL_CLANG_TIDY_CHECKS" line at or after index `from`.
MarkerFrom(L, from) == MinOr({k \in from..Len(L) : IsMarker(L[k])}, Len(L) + 1)

\* The first line with a ")" at or after index `from`.
CloseFrom(L, from) == MinOr({k \in from..Len(L) : Contains(L[k], 41)}, Len(L) + 1)

\* The lines of the add_subdirectory scan that no guarded block hides.
UnguardedCMake(L) ==
  {k \in FirstAddSubdirectory(L)..Len(L) :
     ~Guarded(L, FirstAddSubdirectory(L), k, IsOpenCMake, IsCloseCMake)}

\* The lines of the anchor scan that no guarded block hides.
UnguardedHeader(L) ==
  {k \in FirstAnchor(L)..Len(L) :
     ~Guarded(L, FirstAnchor(L), k, IsOpenHeader, IsCloseHeader)}

\* The first unguarded marker line after the first add_subdirectory( line.
UnguardedMarker(L) == MinOr({k \in UnguardedCMake(L) : IsMarker(L[k])}, Len(L) + 1)

\* ------------------------------------------------------------------------
\* C2 (as claimed).  In both shared files, for every content, a candidate is
\* never inserted between a block-open line and its matching block-close
\* line.
C2_NeverInsideAnyBlock ==
  /\ (cmakeUpd.ran /\ cmakeUpd.subAdded) =>
        ~InsideMatchedBlock(LinesCMake, cmakeUpd.jSub, IsOpenCMake, IsCloseCMake)
  /\ (cmakeUpd.ran /\ cmakeUpd.libAdded) =>
        ~InsideMatchedBlock(LinesCMake, cmakeUpd.jLib, IsOpenCMake, IsCloseCMake)
  /\ (linkUpd.ran /\ linkUpd.added) =>
        ~InsideMatchedBlock(LinesHeader, linkUpd.j, IsOpenHeader, IsCloseHeader)

\* C2 (amended).  A candidate is never inserted between a block-open line
\* that lies at or after the first line of the candidate's target region
\* (the first add_subdirectory( line, the line after the
\* set(ALL_CLANG_TIDY_CHECKS line the scan found, the first anchor comment)
\* and the first block-close line that follows it: the scan that met such a
\* block puts the candidate after the block's closing line.
C2_NeverInsideBlockOfRegion ==
  /\ (cmakeUpd.ran /\ cmakeUpd.subAdded) =>
        /\ cmakeUpd.linesout[cmakeUpd.jSub] = CandSub
        /\ ~InsideBlock(LinesCMake, FirstAddSubdirectory(LinesCMake), cmakeUpd.jSub,
                        IsOpenCMake, IsCloseCMake)
  /\ (cmakeUpd.ran /\ cmakeUpd.libAdded) =>
        /\ cmakeUpd.linesout[cmakeUpd.jLib + (IF cmakeUpd.subAdded THEN 1 ELSE 0)] = CandLib
        /\ ~InsideBlock(LinesCMake, MarkerFrom(LinesCMake, cmakeUpd.jSub) + 1,
                        cmakeUpd.jLib, IsOpenCMake, IsCloseCMake)
  /\ (linkUpd.ran /\ linkUpd.added) =>
        /\ linkUpd.linesout[linkUpd.j] = CandLink[1]
        /\ ~InsideBlock(LinesHeader, FirstAnchor(LinesHeader), linkUpd.j,
                        IsOpenHeader, IsCloseHeader)

\* C2 witness: in both files the scan met a closed guarded block after the
\* first line of the region and the candidate went in after it.
C2_Witness ==
  /\ linkUpd.ran /\ linkUpd.added /\ cmakeUpd.subAdded
  /\ \E o \in FirstAddSubdirectory(LinesCMake)..(cmakeUpd.jSub - 1) :
        \E c \in o..(cmakeUpd.jSub - 1) :
           IsOpenCMake(LinesCMake[o]) /\ IsCloseCMake(LinesCMake[c])
  /\ \E o \in FirstAnchor(LinesHeader)..(linkUpd.j - 1) :
        \E c \in o..(linkUpd.j - 1) :
           IsOpenHeader(LinesHeader[o]) /\ IsCloseHeader(LinesHeader[c])

\* ------------------------------------------------------------------------
\* C9 (as claimed).  For every content of the build file that has a
\* set(ALL_CLANG_TIDY_CHECKS line, the add_subdirectory candidate is never
\* placed after that line, and the library name goes in after it and no
\* later than the first following line with a ")".
C9_AlwaysAroundTheMarker ==
  (cmakeUpd.ran /\ MarkerFrom(LinesCMake, 1) <= Len(LinesCMake)) =>
    LET L == LinesCMake
        m == MarkerFrom(L, 1)
    IN  /\ cmakeUpd.subAdded => cmakeUpd.jSub <= m
        /\ cmakeUpd.libAdded => (cmakeUpd.jLib > m /\ cmakeUpd.jLib <= CloseFrom(L, m + 1))
        /\ cmakeUpd.jSub <= cmakeUpd.jLib

\* C9 (amended).  The add_subdirectory candidate goes in immediately before
\* the first line, among those from the first add_subdirectory( line on that
\* no if( block hides, that is greater-or-equal or starts with
\* set(ALL_CLANG_TIDY_CHECKS (at the end of the file when there is none), so
\* never after the first such marker line.  The library name goes in after
\* the first set(ALL_CLANG_TIDY_CHECKS line at or after that insertion
\* point, immediately before the first following line that has a ")" or is
\* greater-or-equal, and at the end of the file when no such marker line
\* exists; it always lands at or after the add_subdirectory insertion point.
C9_RegionBounds ==
  cmakeUpd.ran =>
    LET L == LinesCMake
        n == Len(L)
        stopSub == MinOr({k \in UnguardedCMake(L) :
                            IsMarker(L[k]) \/ StrGE(L[k], CandSub)}, n + 1)
        m == MarkerFrom(L, cmakeUpd.jSub)
        stopLib == MinOr({k \in (m + 1)..n :
                            Contains(L[k], 41) \/ StrGE(L[k], CandLib)}, n + 1)
    IN  /\ cmakeUpd.jSub = stopSub
        /\ cmakeUpd.jSub <= UnguardedMarker(L)
        /\ cmakeUpd.jLib = stopLib
        /\ m <= n => (cmakeUpd.jLib > m /\ cmakeUpd.jLib <= CloseFrom(L, m + 1))
        /\ cmakeUpd.jSub <= cmakeUpd.jLib
        /\ cmakeUpd.linesout =
             InsertAt(InsertAt(L, cmakeUpd.jLib,
                               IF cmakeUpd.libAdded THEN <<CandLib>> ELSE <<>>),
                      cmakeUpd.jSub, IF cmakeUpd.subAdded THEN <<CandSub>> ELSE <<>>)

\* C9 witness: both candidates went in, the first before the marker line and
\* past a guarded block, the second inside the set(...) list before its ")".
C9_Witness ==
  /\ cmakeUpd.ran /\ cmakeUpd.subAdded /\ cmakeUpd.libAdded
  /\ cmakeUpd.jSub = UnguardedMarker(LinesCMake)
  /\ cmakeUpd.jSub <= Len(LinesCMake)
  /\ IfLine \in Range(SubSeq(LinesCMake, FirstAddSubdirectory(LinesCMake), cmakeUpd.jSub))
  /\ cmakeUpd.jLib > cmakeUpd.jSub + 1
  /\ cmakeUpd.jLib <= Len(LinesCMake)
  /\ Contains(LinesCMake[cmakeUpd.jLib], 41)

\* ------------------------------------------------------------------------
\* C4.  Merge ordering in the build file.

\* s is sorted with no two equal lines.
StrictlySorted(s) ==
  \A a \in 1..Len(s) : \A b \in (a + 1)..Len(s) : StrGE(s[b], s[a]) /\ s[b] # s[a]

\* The reference sorted insert: the lines below x, then x, then the others.
IsBelow(y, x) == ~StrGE(y, x)
RefInsert(s, x) ==
  SelectSeq(s, LAMBDA y : IsBelow(y, x)) \o <<x>> \o SelectSeq(s, LAMBDA y : ~IsBelow(y, x))

NoOpenLine(s) == \A k \in 1..Len(s) : ~IsOpenCMake(s[k])

\* The add_subdirectory list: from the first add_subdirectory( line up to
\* the set(ALL_CLANG_TIDY_CHECKS line that follows it (or the end).
SubRegion(L) ==
  SubSeq(L, FirstAddSubdirectory(L), MarkerFrom(L, FirstAddSubdirectory(L)) - 1)

\* The library-name list: from the line after that marker line up to the
\* first line with a ")" (or the end); empty when there is no marker line.
LibRegion(L) ==
  LET m == MarkerFrom(L, FirstAddSubdirectory(L))
  IN  SubSeq(L, m + 1, CloseFrom(L, m + 1) - 1)

C3_ExistingLineNeverAddedAgain ==
  /\ cmakeUpd.ran =>
        /\ CandSub \in Range(LinesCMake) => ~cmakeUpd.subAdded
        /\ CandLib \in Range(LinesCMake) => ~cmakeUpd.libAdded
  /\ linkUpd.ran =>
        (CandLink[1] \in Range(LinesHeader) => ~linkUpd.added)

\* The lines at the indices of S are in non-decreasing order.
SortedAt(L, S) == \A a \in S : \A b \in S : a < b => StrGE(L[b], L[a])

\* C3 (amended).  When a line equal to the candidate stands in the
\* candidate's target region, outside any guarded block, and the unguarded
\* lines of that region are sorted, the merge of that candidate inserts
\* nothing and the number of copies of the line stays what it was.  The
\* regions: from the first add_subdirectory( line to the first unguarded
\* set(ALL_CLANG_TIDY_CHECKS line; from the line after the first
\* set(ALL_CLANG_TIDY_CHECKS line at or after the add_subdirectory insertion
\* point to the first line with a ")"; the anchor comments from the first one
\* to the first unguarded "} // namespace" line.  When nothing is to be added
\* to a file, the file is left byte-for-byte unchanged, "already" is
\* reported and no write is performed.
C3_DuplicateSkip ==
  /\ cmakeUpd.ran =>
        LET L == LinesCMake
            n == Len(L)
            reg1 == {k \in UnguardedCMake(L) : k < UnguardedMarker(L)}
            m == MarkerFrom(L, cmakeUpd.jSub)
            reg2 == (m + 1)..(CloseFrom(L, m + 1) - 1)
            copies(x, s) == Cardinality({k \in 1..Len(s) : s[k] = x})
        IN  /\ (SortedAt(L, reg1) /\ \E k \in reg1 : L[k] = CandSub) =>
                  /\ ~cmakeUpd.subAdded
                  /\ copies(CandSub, cmakeUpd.linesout) = copies(CandSub, L)
            /\ (SortedAt(L, reg2) /\ \E k \in reg2 : L[k] = CandLib) =>
                  /\ ~cmakeUpd.libAdded
                  /\ copies(CandLib, cmakeUpd.linesout) = copies(CandLib, L)
            /\ (~cmakeUpd.subAdded /\ ~cmakeUpd.libAdded) =>
                  /\ ~cmakeUpd.wrote
                  /\ fs.cmake = fs0.cmake
                  /\ <<"write", "CMakeLists.txt">> \notin ops
                  /\ Say("update_clang_tidy_cmake", "Module already included: %s")
                       \in Range(stdout)
  /\ linkUpd.ran =>
        LET L == LinesHeader
            stop == MinOr({k \in UnguardedHeader(L) : IsNamespaceClose(L[k])}, Len(L) + 1)
            reg == {k \in UnguardedHeader(L) : k < stop /\ IsAnchor(L[k])}
        IN  /\ (SortedAt(L, reg) /\ \E k \in reg : L[k] = CandLink[1]) => ~linkUpd.added
            /\ ~linkUpd.added =>
                  /\ ~linkUpd.wrote
                  /\ fs.header = fs0.header
                  /\ <<"write", "ClangTidyForceLinker.h">> \notin ops
                  /\ Say("update_clang_tidy_force_linker",
                         "Module already has forced link: %s") \in Range(stdout)

\* C3 witness: a first run on files that already hold all three candidate
\* lines, each past a smaller entry; nothing was added, nothing written.
C3_Witness ==
  /\ run = 1 /\ linkUpd.ran
  /\ ~cmakeUpd.subAdded /\ ~cmakeUpd.libAdded /\ ~linkUpd.added
  /\ cmakeUpd.jSub > FirstAddSubdirectory(LinesCMake)
  /\ LinesCMake[cmakeUpd.jLib - 1] = LibA
  /\ linkUpd.j > FirstAnchor(LinesHeader)
  /\ fs.cmake = fsInit.cmake /\ fs.header = fsInit.header

\* ------------------------------------------------------------------------
\* C1.  Idempotence.

\* C1 (as claimed).  For every accepted module name and every initial
\* content of the two shared files, a second run in a row leaves every file
\* as the first run left it, creates nothing and writes nothing.
C1_SecondRunChangesNothing ==
  (run >= 2 /\ pc = "done" /\ ~Rejected(module)) =>
    /\ fs = fs0
    /\ MutatingOps = {}
    /\ ~cmakeUpd.subAdded /\ ~cmakeUpd.libAdded /\ ~linkUpd.added
    /\ ~cmakeUpd.wrote /\ ~linkUpd.wrote

\* The text, as read, is empty or ends with a line terminator.
EndsWithNewline(text) ==
  LET t == UniversalNewlines(text) IN t = <<>> \/ t[Len(t)] = 10

\* The build file has an unguarded set(ALL_CLANG_TIDY_CHECKS line after its
\* first add_subdirectory( line, and ends with a newline.
CMakeLayout(text) ==
  /\ EndsWithNewline(text)
  /\ UnguardedMarker(ReadLines(text)) <= Len(ReadLines(text))

\* In the header every #if line from the first anchor comment on is followed
\* by an #endif line, and the file ends with a newline.
HeaderLayout(text) ==
  LET L == ReadLines(text)
  IN  /\ EndsWithNewline(text)
      /\ \A o \in FirstAnchor(L)..Len(L) :
            IsOpenHeader(L[o]) => \E c \in (o + 1)..Len(L) : IsCloseHeader(L[c])

\* C1 (amended).  For every accepted module name, and every initial content
\* of the two shared files in which (i) the build file has, after its first
\* add_subdirectory( line and outside any if( block opened from there on, a
\* set(ALL_CLANG_TIDY_CHECKS line, (ii) every #if line of the force-link
\* header from its first anchor comment on is followed by an #endif line,
\* and (iii) both files end with a newline: every run after the first leaves
\* every file as the run before left it, creates nothing, inserts no line
\* and writes nothing.
C1_Idempotence ==
  (run >= 2 /\ pc = "done" /\ ~Rejected(module)
     /\ CMakeLayout(fsInit.cmake) /\ HeaderLayout(fsInit.header)) =>
    /\ fs = fs0
    /\ MutatingOps = {}
    /\ ~cmakeUpd.subAdded /\ ~cmakeUpd.libAdded /\ ~linkUpd.added
    /\ ~cmakeUpd.wrote /\ ~linkUpd.wrote
    /\ Say("update_clang_tidy_cmake", "Module already included: %s") \in Range(stdout)
    /\ Say("update_clang_tidy_force_linker", "Module already has forced link: %s")
         \in Range(stdout)

\* C1 witness: a second run has finished on a project whose first run
\* created the directories and inserted lines into both shared files.
C1_Witness ==
  /\ run = 2 /\ pc = "done" /\ ~Rejected(module)
  /\ CMakeLayout(fsInit.cmake) /\ HeaderLayout(fsInit.header)
  /\ fsInit.dirs = {}
  /\ fs.cmake # fsInit.cmake /\ fs.header # fsInit.header
  /\ fs = fs0

=============================================================================
